---- MODULE Spec2Model ----
(***************************************************************************)
(* A model of the query-resolution pipeline of OctopusCopilot:              *)
(*   - get_deployments_for_project, the bounded collection of a project's   *)
(*     deployments (src/domain/transformers/deployments_from_release.py);   *)
(*   - copilot_handler_internal, the request boundary with its tool         *)
(*     catalog, its handlers and its error taxonomy (src/function_app.py);  *)
(*   - the tool wrappers deploy_release and octolint_unused_projects        *)
(*     (src/domain/tools/wrapper);                                          *)
(*   - the per-user defaults and the resolution of the arguments of         *)
(*     releases_query_callback (src/function_app.py);                       *)
(*   - the resolution of the space in get_dashboard_tool                    *)
(*     (src/function_app.py).                                               *)
(* Each is a state machine of its own with its own specification; the       *)
(* variables of the machines a specification does not run stay idle.        *)
(***************************************************************************)
EXTENDS Integers, Sequences, FiniteSets, TLC

\* Python's None, for a string-valued field.
None == "None"

\* A list-valued argument is a list or None.
NoneList == [some |-> FALSE, val |-> <<>>]
List(l) == [some |-> TRUE, val |-> l]

(***************************************************************************)
(* Bounds of the model.                                                     *)
(***************************************************************************)
\* The most releases get_project_releases returns for the project.
MaxReleases == 2
\* The most deployments get_release_deployments returns for one release.
MaxItems == 2
\* max_results ranges over 0..MaxCap.
MaxCap == 1
\* max_results ranges over 0..MaxListCap where the order of the list returned
\* is looked at, with one filter.
MaxListCap == 2
\* The longest deployment log get_deployment_logs returns, in characters.
MaxLogLen == 3
\* max_chars, the character budget of the log excerpt, ranges over 1..MaxChars.
MaxChars == 2
\* The most messages of the chat history that come before the last message.
MaxHistory == 1
\* The most keyword arguments outside its signature a tool is called with.
MaxExtraKeys == 2
\* The similarity of a candidate to a name ranges over 0..MaxScore.
MaxScore == 3

(***************************************************************************)
(* The platform's data, as the REST client returns it.                      *)
(***************************************************************************)
EnvironmentIds == {"Environments-1", "Environments-2"}
TenantIds == {"Tenants-1"}
TaskIds == {"ServerTasks-1"}
\* The creation dates deployments carry, and the dates a query supplies.
CreatedStrings == {"2024-01-01", "2024-01-05", "2024-01-10"}
QueryDateStrings == {"2024-01-01", "2024-01-10"}

\* A key a payload does not have.
Absent == "Absent"

\* The deployments a release may hold. An untenanted deployment has TenantId
\* None; a deployment that was never queued has TaskId None, or no TaskId.
DeploymentItems ==
    [Id : {"Deployments-1"},
     EnvironmentId : EnvironmentIds,
     TenantId : TenantIds \cup {None},
     Created : CreatedStrings,
     TaskId : TaskIds \cup {None, Absent},
     ChannelId : {"Channels-1"},
     DeployedBy : {"admin"}]

\* No deployment is being looked at.
NoDeployment ==
    [Id |-> None, EnvironmentId |-> None, TenantId |-> None, Created |-> None,
     TaskId |-> None, ChannelId |-> None, DeployedBy |-> None]

\* get_project: the project of the name.
get_project(project_name) == [Id |-> "Projects-1", Name |-> project_name]

\* The i-th release of get_project_releases(...)["Items"]. Release notes are a
\* sequence of plain texts and markdown links.
Text(t) == [link |-> FALSE, text |-> t, url |-> None]
Link(t, url) == [link |-> TRUE, text |-> t, url |-> url]
Release(i) ==
    [Id |-> <<"Releases", i>>,
     Version |-> <<"0.0", i>>,
     ReleaseNotes |-> <<Text("Fixes "), Link("#12", "https://example.org/issues/12")>>]

\* strip_markdown_urls: a markdown link is replaced by its text.
strip_markdown_urls(notes) ==
    [i \in 1..Len(notes) |-> Text(notes[i].text)]

\* get_channel_cached: the channel of the id.
get_channel_cached(channel_id) == [Id |-> channel_id, Name |-> "Default"]

\* get_environment_cached / get_tenant_cached: the record of a name.
get_environment_cached(name) ==
    [Id |-> IF name = "Development" THEN "Environments-1" ELSE "Environments-2",
     Name |-> name]

get_tenant_cached(name) == [Id |-> "Tenants-1", Name |-> name]

\* get_task: the task of a deployment.
get_task(task_id) == [State |-> "Success", Duration |-> "1 minute"]

\* parse_unknown_format_date: the day a date string names, as a day number.
parse_unknown_format_date(s) ==
    CASE s = "2024-01-01" -> 1
      [] s = "2024-01-05" -> 5
      [] s = "2024-01-10" -> 10

\* sanitize_list: None becomes the empty list, blank entries are dropped.
sanitize_list(input_list) ==
    IF ~ input_list.some THEN <<>>
    ELSE SelectSeq(input_list.val, LAMBDA entry : entry # "")

\* The filter arguments a caller passes.
EnvironmentNameInputs ==
    {NoneList, List(<<"Production">>), List(<<"Development", "", "Production">>)}
TenantNameInputs == {List(<<>>), List(<<"Contoso">>)}
DatesInputs ==
    {NoneList, List(<<>>), List(<<"2024-01-10">>),
     List(<<"2024-01-01", "2024-01-10", "2024-01-10">>)}
        \cup {List(<<a, b>>) : a \in QueryDateStrings, b \in QueryDateStrings}

(***************************************************************************)
(* State.                                                                   *)
(***************************************************************************)
VARIABLES
    \* get_deployments_for_project: its arguments,
    environment_names, tenant_names, dates, max_results,
    \* the number of releases of the project,
    n_releases,
    \* its position, the release and the deployment the loops are at, the
    \* number of deployments of the current release and the current one,
    pc, ri, n_items, di, deployment,
    \* whether the last pass of the inner loop reached the append of line 74
    \* (TRUE) or left through one of the continue statements (FALSE),
    retained,
    \* the list it builds and the value it returns,
    deployments, result,
    \* the number of calls of get_task and of get_channel_cached it has made.
    lookups,
    \* copilot_handler_internal: the request (its message parameter and its
    \* body), the request's situation (whose credentials it carries, whether
    \* GITHUB_CLIENT_REDIRECT is set) and the log budget,
    req, auth, client_redirect_set, max_chars,
    \* its position, the query extracted, what the language model selected and
    \* the function call llm_tool_query built from it,
    hpc, query, selection, function_call,
    \* the handlers invoked so far, the value the handler returned, the
    \* exception in flight (or that was caught), the number of handle_error
    \* calls, whether an exception left copilot_handler_internal, the response,
    calls, handler_result, raised, handle_error_calls, escaped, response,
    \* logs_callback: the log fetched and the context given to the model,
    logs, llm_context,
    \* how_to_callback: the calls of search_repo made, each with whether it
    \* was given the user's token and with what it raised.
    searches,
    \* A tool wrapper: which one, the query it was built with, whether it was
    \* built with a logger, the declared arguments and the extra keyword
    \* arguments of the call,
    wrapper, wrapper_query, has_logging, declared, kwargs,
    \* its position, the index of the extra key its loop is at, what was
    \* logged, the calls of the callback with their arguments, what the
    \* callback returned and what the wrapper returned.
    wpc, ki, logged, callback_calls, callback_result, wrapper_result,
    \* The persisted defaults of every user, and the last tool call that read
    \* or wrote them: its arguments and what it computed.
    defaults_store, request, tool_outcome,
    \* get_dashboard_tool: its position, the user, the spaces of the platform
    \* and their similarity to the name given, the tool_space_name argument and the
    \* local variable tool_space_name, the resolver's result, the number of calls of
    \* the lambda that yields the candidates, and the number of other requests
    \* for spaces made to the platform.
    gpc, github_user, spaces, scores, space_name_argument, tool_space_name,
    tool_sanitized_space, source_calls, platform_calls

dvars == <<environment_names, tenant_names, dates, max_results, n_releases,
           pc, ri, n_items, di, deployment, retained, deployments, result,
           lookups>>

hvars == <<req, auth, client_redirect_set, max_chars, hpc, query, selection,
           function_call, calls, handler_result, raised, handle_error_calls,
           escaped, response, logs, llm_context, searches>>

wvars == <<wrapper, wrapper_query, has_logging, declared, kwargs, wpc, ki, logged,
           callback_calls, callback_result, wrapper_result>>

svars == <<defaults_store, request, tool_outcome>>

gvars == <<gpc, github_user, spaces, scores, space_name_argument, tool_space_name,
           tool_sanitized_space, source_calls, platform_calls>>

vars == <<dvars, hvars, wvars, svars, gvars>>

(***************************************************************************)
(* get_deployments_for_project                                              *)
(***************************************************************************)
Min(a, b) == IF a <= b THEN a ELSE b
Max(a, b) == IF a >= b THEN a ELSE b

\* s[:n], for n >= 0.
PyHead(s, n) == SubSeq(s, 1, Min(n, Len(s)))

\* s[-n:], for n >= 0: -0 is 0, so that s[-0:] is all of s.
PyTail(s, n) ==
    IF n = 0 \/ n >= Len(s) THEN s ELSE SubSeq(s, Len(s) - n + 1, Len(s))

\* Lines 35-43: the names are sanitized and converted to records.
environments ==
    LET names == sanitize_list(environment_names)
    IN  [i \in 1..Len(names) |-> get_environment_cached(names[i])]

tenants ==
    LET names == sanitize_list(tenant_names)
    IN  [i \in 1..Len(names) |-> get_tenant_cached(names[i])]

\* EnvironmentKeeps, comparing with the first requested environment only.
EnvironmentKeeps_FirstOnly(d, envs) ==
    ~ (Len(envs) # 0 /\ envs[1].Id # d.EnvironmentId)

\* Lines 52-54: keep the deployment if it matches an environment, or if there
\* were no environments.
EnvironmentKeeps(d, envs) ==
    ~ (Len(envs) # 0 /\ {i \in 1..Len(envs) : envs[i].Id = d.EnvironmentId} = {})

\* Lines 57-58: the same for tenants.
TenantKeeps(d, tens) ==
    ~ (Len(tens) # 0 /\ {i \in 1..Len(tens) : tens[i].Id = d.TenantId} = {})

\* DateKeeps, taking the first and the last date as a range whenever there is
\* a date.
DateKeeps_AnyDates(d, ds) ==
    IF ds.some /\ Len(ds.val) >= 1
    THEN LET created == parse_unknown_format_date(d.Created)
             date1 == parse_unknown_format_date(ds.val[1])
             date2 == parse_unknown_format_date(ds.val[Len(ds.val)])
         IN  ~ (created < Min(date1, date2) \/ created > Max(date1, date2))
    ELSE TRUE

\* DateKeeps, taking the first date as the start and the second as the end.
DateKeeps_Ordered(d, ds) ==
    IF ds.some /\ Len(ds.val) = 2
    THEN LET created == parse_unknown_format_date(d.Created)
             date1 == parse_unknown_format_date(ds.val[1])
             date2 == parse_unknown_format_date(ds.val[2])
         IN  ~ (created < date1 \/ created > date2)
    ELSE TRUE

\* Lines 61-67: with exactly two dates, exclude anything outside the range.
DateKeeps(d, ds) ==
    IF ds.some /\ Len(ds.val) = 2
    THEN LET created == parse_unknown_format_date(d.Created)
             date1 == parse_unknown_format_date(ds.val[1])
             date2 == parse_unknown_format_date(ds.val[2])
         IN  ~ (created < Min(date1, date2) \/ created > Max(date1, date2))
    ELSE TRUE

\* next(filter(lambda x: x["Id"] == id, records)): the first record of the id.
FirstWithId(records, id) ==
    records[CHOOSE i \in 1..Len(records) :
                /\ records[i].Id = id
                /\ \A j \in 1..(i - 1) : records[j].Id # id]

\* Lines 69-70: deployment.get("TaskId"), which is None for a payload
\* without the key.
TaskIdOrNone(d) == IF d.TaskId = Absent THEN None ELSE d.TaskId

\* Lines 69-70: get_task is called if deployment.get("TaskId") is neither
\* None nor empty.
HasTask(d) == TaskIdOrNone(d) \notin {None, ""}

\* No lookup was made.
NoLookups == [get_task |-> 0, get_channel_cached |-> 0]

\* Lines 69-72: the lookups made for a deployment that passed the filters.
Lookups(counts, d) ==
    [get_task |-> counts.get_task + (IF HasTask(d) THEN 1 ELSE 0),
     get_channel_cached |-> counts.get_channel_cached + 1]

\* Line 80: deployment["TaskId"] raises KeyError for a payload without the
\* key.
RecordRaises(d) == d.TaskId = Absent

\* Lines 69-98: the record appended for a retained deployment.
DeploymentRecord(release, d, envs, tens) ==
    LET project == get_project("WebApp")
        task == get_task(d.TaskId)
        has_task == HasTask(d)
        channel == get_channel_cached(d.ChannelId)
    IN  [SpaceId |-> "Spaces-1",
         ProjectId |-> project.Id,
         ProjectName |-> project.Name,
         ReleaseVersion |-> release.Version,
         DeploymentId |-> d.Id,
         TaskId |-> d.TaskId,
         TenantId |-> d.TenantId,
         TenantName |-> IF Len(tens) # 0
                        THEN FirstWithId(tens, d.TenantId).Name ELSE None,
         ReleaseId |-> release.Id,
         EnvironmentId |-> d.EnvironmentId,
         EnvironmentName |-> IF Len(envs) # 0
                             THEN FirstWithId(envs, d.EnvironmentId).Name ELSE None,
         ChannelId |-> d.ChannelId,
         ChannelName |-> channel.Name,
         Created |-> d.Created,
         TaskState |-> IF has_task THEN task.State ELSE None,
         TaskDuration |-> IF has_task THEN task.Duration ELSE None,
         ReleaseNotes |-> strip_markdown_urls(release.ReleaseNotes),
         DeployedBy |-> d.DeployedBy]

\* CapReached, one deployment late.
CapReached_Late(deps, cap) == Len(deps) > cap

\* Lines 100 and 103: the test that ends both loops.
CapReached(deps, cap) == Len(deps) >= cap

\* Lines 103-104: where the release loop goes once the inner loop has ended,
\* by its break or by running out of deployments.
AfterDeployments(deps, cap) ==
    IF CapReached(deps, cap) THEN "return" ELSE "release_loop"

\* ReturnValue with deployments[-max_results:], the end of the list.
ReturnValue_Tail(deps, cap) == [Deployments |-> PyTail(deps, cap)]

\* ReturnValue without the slice.
ReturnValue_Unsliced(deps, cap) == [Deployments |-> deps]

\* Line 106: deployments[:max_results], for max_results >= 0.
ReturnValue(deps, cap) == [Deployments |-> PyHead(deps, cap)]

(***************************************************************************)
(* copilot_handler_internal: exceptions, responses and the tool catalog.    *)
(***************************************************************************)
\* An exception: its class and the fields its handler reads.
NoException ==
    [type |-> None, name |-> None, resource_type |-> None, message |-> None]
Exc(type, message) ==
    [type |-> type, name |-> None, resource_type |-> None, message |-> message]
SpaceNotFound(space_name) ==
    [type |-> "SpaceNotFound", name |-> space_name, resource_type |-> None,
     message |-> None]
ResourceNotFound(resource_type, resource_name) ==
    [type |-> "ResourceNotFound", name |-> resource_name,
     resource_type |-> resource_type, message |-> None]

\* The names a query may carry that the platform does not know.
SpaceNames == {"Defalt", "My Space"}
ResourceTypes == {"Project", "Environment"}
ResourceNames == {"WebApp"}

\* Where the request's Octopus credentials come from, one value per path
\* through get_api_key_and_url.
AuthSituations ==
    {"headers",          \* X-Octopus-ApiKey and X-Octopus-Server are sent
     "github_failed",    \* get_github_user raises GitHubRequestFailed
     "no_github_user",   \* get_github_user returns nothing
     "storage_error",    \* get_users_details raises HttpResponseError
     "not_configured",   \* the stored details lack a field
     "undecryptable",    \* decrypt_eax raises ValueError
     "stored"}           \* the stored details decrypt

\* get_api_key_and_url: the exception it raises, or NoException.
get_api_key_and_url(situation) ==
    CASE situation = "headers" -> NoException
      [] situation = "github_failed" -> Exc("GitHubRequestFailed", "HTTP 401")
      [] situation = "no_github_user" -> Exc("UserNotLoggedIn", None)
      [] situation = "storage_error" -> Exc("UserNotConfigured", None)
      [] situation = "not_configured" -> Exc("UserNotConfigured", None)
      [] situation = "undecryptable" -> Exc("OctopusApiKeyInvalid", None)
      [] situation = "stored" -> NoException

\* get_sse_headers.
get_sse_headers == [ContentType |-> "text/event-stream", CacheControl |-> "no-cache"]
NoHeaders == [ContentType |-> None, CacheControl |-> None]

\* A frame of an event stream; a body that is not framed is one "raw" chunk.
Frame(text) == [field |-> "data", value |-> text]

\* convert_to_sse_response: the text, unchanged, in event-stream framing.
convert_to_sse_response(text) == <<Frame(text)>>

\* func.HttpResponse(body, status_code=200, headers=None).
HttpResponse(body, status_code, headers) ==
    [status_code |-> status_code, headers |-> headers, body |-> body]
NoResponse == [status_code |-> 0, headers |-> NoHeaders, body |-> <<>>]

\* The texts of the boundary. A text is the sequence of its parts.
SampleQuestionText ==
    <<"Ask a question like \"What are the projects in the space called Default?\"">>
GitHubTokenInvalidText == <<"Your GitHub token is invalid.">>
OctopusRequestFailedText ==
    <<"The request to the Octopus API failed. ",
      "Either your API key is invalid, or there was an issue contacting the server.">>
GitHubRequestFailedText ==
    <<"The request to the GitHub API failed. ",
      "Your GitHub token is likely to be invalid.">>
NotAuthorizedText == <<"You are not authorized.">>
SpaceNotFoundText(e) ==
    <<"The space \"", e.name, "\" was not found. ",
      "Either the space does not exist or the API key does not ",
      "have permissions to access it.">>
ResourceNotFoundText(e) ==
    <<"The ", e.resource_type, " \"", e.name, "\" was not found. ",
      "Either the resource does not exist or the API key does not ",
      "have permissions to access it.">>
NO_FUNCTION_RESPONSE == <<"NO_FUNCTION_RESPONSE">>
UnexpectedErrorText ==
    <<"An unexpected error was thrown. This error has been logged. I'm sorry for the inconvenience.">>
LoginText ==
    <<"To continue chatting please [log in](https://github.com/login/oauth/authorize?",
      "client_id=", "GITHUB_CLIENT_ID", "&redirect_url=", "GITHUB_CLIENT_REDIRECT",
      "&scope=user&allow_signup=false)">>
ExceptionRaisedText == <<"An exception was raised. See the logs for more details.">>

\* What leaving the try statement amounts to: whether the exception escapes,
\* the number of handle_error calls made, the response returned.
Caught(handle_errors, resp) ==
    [escaped |-> FALSE, handle_errors |-> handle_errors, response |-> resp]
Uncaught == [escaped |-> TRUE, handle_errors |-> 0, response |-> NoResponse]

SseResponse(text) == HttpResponse(convert_to_sse_response(text), 200, get_sse_headers)

\* request_config_details: urllib.parse.quote raises on the None that an unset
\* GITHUB_CLIENT_REDIRECT gives, and the function's own except clause answers.
request_config_details(redirect_set) ==
    IF redirect_set
    THEN Caught(0, SseResponse(LoginText))
    ELSE Caught(1, HttpResponse(<<Frame(ExceptionRaisedText)>>, 500, get_sse_headers))

\* The except clauses of copilot_handler_internal without the last one.
ExceptClauses_NoCatchAll(e, redirect_set) ==
    CASE e.type = "UserNotLoggedIn" -> Caught(0, SseResponse(GitHubTokenInvalidText))
      [] e.type = "OctopusRequestFailed" -> Caught(1, SseResponse(OctopusRequestFailedText))
      [] e.type = "GitHubRequestFailed" -> Caught(1, SseResponse(GitHubRequestFailedText))
      [] e.type = "NotAuthorized" -> Caught(0, SseResponse(NotAuthorizedText))
      [] e.type = "SpaceNotFound" -> Caught(0, SseResponse(SpaceNotFoundText(e)))
      [] e.type = "ResourceNotFound" -> Caught(0, SseResponse(ResourceNotFoundText(e)))
      [] e.type \in {"UserNotConfigured", "OctopusApiKeyInvalid"} ->
            request_config_details(redirect_set)
      [] e.type = "ValueError" -> Caught(0, SseResponse(NO_FUNCTION_RESPONSE))
      [] OTHER -> Uncaught

\* The except clauses with the space's name left out of the answer.
ExceptClauses_NamelessSpace(e, redirect_set) ==
    IF e.type = "SpaceNotFound"
    THEN Caught(0, SseResponse(<<"The space was not found.">>))
    ELSE ExceptClauses_NoCatchAll(e, redirect_set)

\* The except clauses with UserNotLoggedIn handled like UserNotConfigured.
ExceptClauses_AllLogin(e, redirect_set) ==
    IF e.type = "UserNotLoggedIn"
    THEN request_config_details(redirect_set)
    ELSE ExceptClauses_NoCatchAll(e, redirect_set)

\* The classes the except clauses before the last name (lines 976-1008).
NamedExceptionTypes ==
    {"UserNotLoggedIn", "OctopusRequestFailed", "GitHubRequestFailed",
     "NotAuthorized", "SpaceNotFound", "ResourceNotFound", "UserNotConfigured",
     "OctopusApiKeyInvalid", "ValueError"}

\* The except clauses with the GitHubRequestFailed clause answering without
\* the call of handle_error.
ExceptClauses_UnloggedUpstream(e, redirect_set) ==
    IF e.type = "GitHubRequestFailed"
    THEN Caught(0, SseResponse(GitHubRequestFailedText))
    ELSE ExceptClauses_NoCatchAll(e, redirect_set)

\* The except clauses with the last one putting str(e) in its answer.
ExceptClauses_LeakyCatchAll(e, redirect_set) ==
    IF e.type \in NamedExceptionTypes
    THEN ExceptClauses_NoCatchAll(e, redirect_set)
    ELSE Caught(1, SseResponse(<<"An unexpected error was thrown: ", e.message>>))

\* Lines 976-1016: the except clauses of copilot_handler_internal, in order.
ExceptClauses(e, redirect_set) ==
    CASE e.type = "UserNotLoggedIn" -> Caught(0, SseResponse(GitHubTokenInvalidText))
      [] e.type = "OctopusRequestFailed" -> Caught(1, SseResponse(OctopusRequestFailedText))
      [] e.type = "GitHubRequestFailed" -> Caught(1, SseResponse(GitHubRequestFailedText))
      [] e.type = "NotAuthorized" -> Caught(0, SseResponse(NotAuthorizedText))
      [] e.type = "SpaceNotFound" -> Caught(0, SseResponse(SpaceNotFoundText(e)))
      [] e.type = "ResourceNotFound" -> Caught(0, SseResponse(ResourceNotFoundText(e)))
      [] e.type \in {"UserNotConfigured", "OctopusApiKeyInvalid"} ->
            request_config_details(redirect_set)
      [] e.type = "ValueError" -> Caught(0, SseResponse(NO_FUNCTION_RESPONSE))
      [] OTHER -> Caught(1, SseResponse(UnexpectedErrorText))

\* A tool of the catalog: the name the language model selects it by and the
\* callback of copilot_handler_internal it is bound to.
Tool(name, callback) == [name |-> name, callback |-> callback]

NormalTools ==
    <<Tool("answer_general_query", "general_query_callback"),
      Tool("answer_step_features", "general_query_callback"),
      Tool("answer_project_variables", "variable_query_callback"),
      Tool("answer_project_variables_usage", "variable_query_callback"),
      Tool("answer_releases_and_deployments", "releases_query_callback"),
      Tool("answer_logs", "logs_callback"),
      Tool("answer_machines", "resource_specific_callback"),
      Tool("answer_certificates", "resource_specific_callback"),
      Tool("clean_up_all_records", "clean_up_all_records"),
      Tool("logout", "logout"),
      Tool("set_default_value", "set_default_value"),
      Tool("get_default_value", "get_default_value"),
      Tool("remove_default_value", "remove_default_value"),
      Tool("get_dashboard_tool", "get_dashboard_tool")>>

\* build_form_tools with the general query as the fallback too.
build_form_tools_GeneralFallback ==
    [functions |-> NormalTools,
     fallback |-> Tool("answer_general_query", "general_query_callback"),
     invalid |-> Tool("answer_general_query", "general_query_callback")]

\* build_form_tools with the documentation search as the invalid handler too.
build_form_tools_HowToInvalid ==
    [functions |-> NormalTools,
     fallback |-> Tool("how_to", "how_to_callback"),
     invalid |-> Tool("how_to", "how_to_callback")]

\* Lines 925-958: build_form_tools.
build_form_tools ==
    [functions |-> NormalTools,
     fallback |-> Tool("how_to", "how_to_callback"),
     invalid |-> Tool("answer_general_query", "general_query_callback")]

\* The callbacks that start with get_api_key_and_url().
ApiKeyCallbacks ==
    {"general_query_callback", "variable_query_callback", "releases_query_callback",
     "logs_callback", "resource_specific_callback", "get_dashboard_tool"}

\* What the language model answers: a tool by name (registered or not), no
\* tool at all, or a tool with arguments that cannot be decoded.
RegisteredNames == {NormalTools[i].name : i \in 1..Len(NormalTools)}
Selections ==
    [kind : {"tool"}, name : RegisteredNames \cup {"deploy_release"}]
        \cup {[kind |-> "no_tool", name |-> None],
              [kind |-> "invalid_args", name |-> "answer_logs"]}
NoSelection == [kind |-> None, name |-> None]

\* A function call: the role of the tool chosen, the tool, and whether it is
\* given arguments extracted from the query or none.
FunctionCall(role, tool, args) ==
    [role |-> role, name |-> tool.name, callback |-> tool.callback, args |-> args]
NoCall == [role |-> None, name |-> None, callback |-> None, args |-> None]

\* llm_tool_query: the function call for the model's selection.
Dispatch(tools, sel) ==
    IF sel.kind = "tool"
    THEN IF \E i \in 1..Len(tools.functions) : tools.functions[i].name = sel.name
         THEN FunctionCall("normal",
                           tools.functions[CHOOSE i \in 1..Len(tools.functions) :
                                               tools.functions[i].name = sel.name],
                           "extracted")
         ELSE FunctionCall("fallback", tools.fallback, "extracted")
    ELSE FunctionCall("invalid", tools.invalid, "none")

\* The callbacks that end with a language-model call (llm_message_query or
\* collect_llm_context).
LlmCallbacks ==
    {"general_query_callback", "variable_query_callback", "releases_query_callback",
     "logs_callback", "resource_specific_callback", "how_to_callback"}

\* domain.exceptions.openai_error: what the language-model client raises when
\* the model rejects a request, for its content or for its size. Both are
\* classes of their own, derived from Exception.
OpenAIErrors ==
    {Exc("OpenAIContentFilter", "content_filter"),
     Exc("OpenAITokenLengthExceeded", "context_length_exceeded")}

\* The exceptions the body of a callback may raise once it has its
\* credentials: those of the platform, GitHub and language-model clients.
HandlerExceptions(callback) ==
    {Exc("GitHubRequestFailed", "HTTP 403"), Exc("ValueError", "content filter"),
     Exc("Exception", "connection reset")}
      \cup (IF callback \in LlmCallbacks THEN OpenAIErrors ELSE {})
      \cup (IF callback \in ApiKeyCallbacks
            THEN {Exc("OctopusRequestFailed", "HTTP 500")}
                    \cup {SpaceNotFound(n) : n \in SpaceNames}
                    \cup {ResourceNotFound(t, n) : t \in ResourceTypes, n \in ResourceNames}
            ELSE {})
      \cup (IF callback = "clean_up_all_records"
            THEN {Exc("NotAuthorized", None)} ELSE {})

\* The exceptions llm_tool_query may raise.
LlmExceptions ==
    {Exc("ValueError", "content filter"), Exc("Exception", "timeout")} \cup OpenAIErrors

\* The queries extract_query may return: it strips what it returns.
Queries == {"", "Show me the dashboard"}

\* str.strip, on the texts of the model.
strip(s) ==
    CASE s \in {"", "  "} -> ""
      [] s = " Show me the dashboard " -> "Show me the dashboard"
      [] s = " What came before " -> "What came before"
      [] OTHER -> s

\* The bodies of a request: no bytes, white space, bytes that json.loads
\* rejects, or a JSON object, which may have a list of messages.
EmptyBody == [kind |-> "empty", has_messages |-> FALSE, messages |-> <<>>]
BlankBody == [kind |-> "blank", has_messages |-> FALSE, messages |-> <<>>]
MalformedBody == [kind |-> "malformed", has_messages |-> FALSE, messages |-> <<>>]
ObjectBody == [kind |-> "object", has_messages |-> FALSE, messages |-> <<>>]
MessagesBody(messages) ==
    [kind |-> "object", has_messages |-> TRUE, messages |-> messages]

\* A message of the chat: its content, which is a text, null (None), or not
\* there at all.
ChatMessage(content) == [content |-> content]

\* The chat history: earlier messages, and then the last one.
Histories ==
    UNION {[1..n -> {ChatMessage(" What came before "), ChatMessage(Absent)}] :
                n \in 0..MaxHistory}
LastMessages ==
    {ChatMessage(c) : c \in {Absent, None, "  ", " Show me the dashboard "}}
Bodies ==
    {EmptyBody, BlankBody, MalformedBody, ObjectBody, MessagesBody(<<>>)}
        \cup {MessagesBody(Append(h, m)) : h \in Histories, m \in LastMessages}

\* func.HttpRequest: the "message" parameter, None without one, and the body.
HttpRequest(message_param, body) == [message |-> message_param, body |-> body]
NoHttpRequest == HttpRequest(None, EmptyBody)

\* The requests form_handler gets: a form sends the message parameter,
\* Copilot sends the chat in the body.
Requests ==
    {HttpRequest(p, b) : p \in {None, ""}, b \in Bodies}
        \cup {HttpRequest(p, b) :
                    p \in {"  ", " Show me the dashboard "},
                    b \in {EmptyBody,
                           MessagesBody(<<ChatMessage(" What came before ")>>)}}

\* What extract_query returns, and the number of handle_error calls it made.
Extracted(text, handle_errors) == [query |-> text, handle_errors |-> handle_errors]

\* The first message of the chat in place of the last.
LastMessage_First(messages) == messages[1]

\* Line 1045: body.get('messages')[-1].
LastMessage(messages) == messages[Len(messages)]

\* Lines 1019-1053: extract_query. json.loads raises on a malformed body and
\* None has no strip; the except clause of line 1048 logs either and returns
\* the empty string.
extract_query(http_request) ==
    IF http_request.message # None /\ http_request.message # ""
    THEN Extracted(strip(http_request.message), 0)
    ELSE IF http_request.body.kind \in {"empty", "blank"}
    THEN Extracted("", 0)
    ELSE IF http_request.body.kind = "malformed"
    THEN Extracted("", 1)
    ELSE IF http_request.body.has_messages /\ Len(http_request.body.messages) # 0
    THEN LET last_message == LastMessage(http_request.body.messages)
         IN  IF last_message.content = Absent
             THEN Extracted("", 0)
             ELSE IF last_message.content = None
             THEN Extracted("", 1)
             ELSE Extracted(strip(last_message.content), 0)
    ELSE Extracted("", 0)

\* Line 964 left out: no query is taken as empty.
IsBlank_Never(q) == FALSE

\* Line 964: not query.strip().
IsBlank(q) == strip(q) = ""

\* What search_repo may raise; NoException when it returns its results.
SearchOutcomes ==
    {NoException, Exc("GitHubRequestFailed", "HTTP 429"),
     Exc("Exception", "connection refused")}

\* A call of search_repo: with the user's token ("token") or without one
\* ("anonymous"), and what it raised.
Search(attempt, e) == [auth |-> attempt, raised |-> e]

\* how_to_callback without the except clause of lines 912-914.
AfterSearch_NoRetry(attempt, e) ==
    IF e = NoException THEN "body" ELSE "boundary"

\* Lines 910-916: where how_to_callback goes after a search. The search with
\* the token is in a try statement that catches GitHubRequestFailed and
\* searches again; the second search is in no try statement.
AfterSearch(attempt, e) ==
    IF e = NoException THEN "body"
    ELSE IF attempt = "token" /\ e.type = "GitHubRequestFailed" THEN "search_retry"
    ELSE "boundary"
AnswerText == <<"answer">>

\* The characters of a log, and the logs get_deployment_logs may return.
LogChars == {"a", "b"}
LogTexts == UNION {[1..n -> LogChars] : n \in 0..MaxLogLen}

\* What llm_message_query is given.
NoContext == [input |-> None, context |-> <<>>]

\* The excerpt of the log, taken from its start.
LogExcerpt_Head(log, budget) == PyHead(log, budget)

\* Line 834: logs[-max_chars:].
LogExcerpt(log, budget) == PyTail(log, budget)

(***************************************************************************)
(* The tool wrappers deploy_release and octolint_unused_projects.           *)
(***************************************************************************)
Wrappers == {"deploy_release", "octolint_unused_projects"}

\* The values the language model extracts for a declared argument; None is
\* the default of every declared argument.
ArgumentValues == {None, "Default"}

\* The number of arguments the signature declares (deploy_release: space_name,
\* project_name, release_version, environment_name, tenant_name;
\* octolint_unused_projects: space).
DeclaredCount(w) == IF w = "deploy_release" THEN 5 ELSE 1

\* The keyword arguments the signatures do not declare: **kwargs, a dict, in
\* insertion order and with distinct keys.
ExtraKeys == {"channel_name", "dry_run", "variables"}
KwargsInputs ==
    {kw \in UNION {[1..n -> ExtraKeys \X {"true"}] : n \in 0..MaxExtraKeys} :
        \A i, j \in 1..Len(kw) : kw[i][1] = kw[j][1] => i = j}

\* What the bound callback may return.
CallbackResults == {"Deployment queued", "No unused projects"}
NoResult == None

\* The arguments of the callback, with the extra keyword arguments passed on.
CallArguments_WithExtras(w, q, args, kw) ==
    (IF w = "deploy_release" THEN <<q>> \o args ELSE args)
        \o [i \in 1..Len(kw) |-> kw[i][2]]

\* deploy_release.py lines 24-29, octolint_unused_projects.py line 22: the
\* arguments the callback is called with.
CallArguments(w, q, args, kw) ==
    IF w = "deploy_release" THEN <<q>> \o args ELSE args

\* deploy_release.py line 21, octolint_unused_projects.py line 20: the second
\* argument is not an f-string.
UnexpectedKeyEntry(key) == <<"Unexpected Key: ", key, "Value: {value}">>
EnterEntry == <<"Enter:", "deploy_release">>

(***************************************************************************)
(* Entity resolution and the per-user defaults.                             *)
(***************************************************************************)
\* str.casefold, on the names of the model.
casefold(s) ==
    CASE s \in {"Project", "PROJECT", "project"} -> "project"
      [] s \in {"Space", "space"} -> "space"
      [] s \in {"Environment", "environment"} -> "environment"
      [] s \in {"Tenant", "tenant"} -> "tenant"
      [] s \in {"Colour", "colour"} -> "colour"
      [] s \in {"Default", "DEFAULT", "default"} -> "default"
      [] s \in {"Defalt", "defalt"} -> "defalt"
      [] s \in {"Staging", "staging"} -> "staging"
      [] s \in {"WebApp", "webapp"} -> "webapp"
      [] s \in {"Billing", "billing"} -> "billing"
      [] s \in {"Nowhere", "nowhere"} -> "nowhere"
      [] s \in {"Deft", "deft"} -> "deft"
      [] OTHER -> s

\* The GitHub users get_github_user_from_form() may return.
Users == {"U", "V"}

\* The names set_default_value is called with and the value given for each,
\* and the names get_default_value is called with. "WebApp" is only ever
\* saved under "Project" and "Billing" only under "PROJECT".
SetDefaultInputs ==
    {<<"Project", "WebApp">>, <<"PROJECT", "Billing">>,
     <<"environment", "Production">>, <<"Colour", "Red">>}
GetDefaultNames == {"project", "Project", "PROJECT", "Environment", "Tenant", "Colour"}

\* The keys a row of the defaults table may get.
StoreKeys ==
    {p[1] : p \in SetDefaultInputs} \cup {casefold(p[1]) : p \in SetDefaultInputs}
        \cup {"space"}

\* The table with no defaults saved.
NoDefaults == [u \in Users |-> [k \in StoreKeys |-> None]]

\* validate_default_value_name: the names of the enumerated set, in any case.
ValidDefaultName(default_name) ==
    casefold(default_name) \in {"environment", "project", "space", "channel", "tenant"}
InvalidDefaultNameText == <<"Invalid default name">>

\* infrastructure.users: the defaults table, one row per user.
save_default_values(store, user, key, value) ==
    [store EXCEPT ![user][key] = value]
get_default_values(store, user, key) ==
    IF key \in StoreKeys THEN store[user][key] ELSE None
delete_default_values(store, user) ==
    [store EXCEPT ![user] = [k \in StoreKeys |-> None]]

\* The key set_default_value saves under, the name taken as it was given.
DefaultKeyOnWrite_Raw(default_name) == default_name

\* Line 515: default_name.casefold().
DefaultKeyOnWrite(default_name) == casefold(default_name)

\* The key get_default_value reads, the name taken as it was given.
DefaultKeyOnRead_Raw(default_name) == default_name

\* Line 532: str(default_name).casefold().
DefaultKeyOnRead(default_name) == casefold(default_name)

\* set_default_value saving the value before it validates the name.
set_default_value_SaveFirst(store, user, default_name, default_value) ==
    [store |-> save_default_values(store, user, DefaultKeyOnWrite(default_name),
                                   default_value),
     text |-> IF ~ ValidDefaultName(default_name)
              THEN InvalidDefaultNameText
              ELSE <<"Saved default value \"", default_value, "\" for \"",
                     casefold(default_name), "\"">>]

\* Lines 500-517: set_default_value, as the table it leaves and the text it
\* returns.
set_default_value(store, user, default_name, default_value) ==
    IF ~ ValidDefaultName(default_name)
    THEN [store |-> store, text |-> InvalidDefaultNameText]
    ELSE [store |-> save_default_values(store, user, DefaultKeyOnWrite(default_name),
                                        default_value),
          text |-> <<"Saved default value \"", default_value, "\" for \"",
                     casefold(default_name), "\"">>]

\* Lines 519-524: remove_default_value.
remove_default_value(store, user) ==
    [store |-> delete_default_values(store, user), text |-> <<"Deleted default valued">>]

\* Lines 526-534: get_default_value.
get_default_value(store, user, default_name) ==
    LET name == DefaultKeyOnRead(default_name)
        value == get_default_values(store, user, name)
    IN  [store |-> store,
         text |-> <<"The default value for \"", name, "\" is \"", value, "\"">>]

\* get_default_argument: the argument if it is not empty, or else the user's
\* default of the name.
get_default_argument(store, user, argument, default_name) ==
    IF argument # None /\ argument # ""
    THEN argument
    ELSE get_default_values(store, user, casefold(default_name))

\* get_default_argument_list: the same for a list-valued argument.
get_default_argument_list(store, user, argument, default_name) ==
    IF Len(argument) # 0
    THEN argument
    ELSE LET default == get_default_values(store, user, casefold(default_name))
         IN  IF default # None THEN <<default>> ELSE <<>>

\* The least similarity at which a candidate is accepted, and the similarity
\* of a name to the candidates of the platform.
AcceptScore == 2
Similarity(name, candidate) ==
    IF <<name, candidate>> \in {<<"Defalt", "Default">>, <<"Biling", "Billing">>}
    THEN AcceptScore ELSE 0

\* No match, and the match of a name.
NoMatch == [some |-> FALSE, original |-> None, matched |-> None, forced |-> FALSE]
Match(name, matched) ==
    [some |-> TRUE, original |-> name, matched |-> matched, forced |-> TRUE]

\* The first index of names at which f is greatest, f being a function on
\* 1..Len(names).
FirstBest(names, f) ==
    CHOOSE i \in 1..Len(names) :
        /\ \A j \in 1..Len(names) : f[j] <= f[i]
        /\ \A j \in 1..(i - 1) : f[j] < f[i]

\* sanitize_name_fuzzy(names_generator, name): none for an empty name, without
\* calling names_generator; or else the candidate that equals the name but
\* for case, or else the first candidate of the greatest similarity, if that
\* is at least AcceptScore; "forced" says whether names_generator was called.
\* score gives the similarity of each candidate to the name.
sanitize_name_fuzzy(names, name, score) ==
    IF name = None \/ name = ""
    THEN NoMatch
    ELSE LET exact == {i \in 1..Len(names) : casefold(names[i]) = casefold(name)}
             f == [i \in 1..Len(names) |-> score[names[i]]]
         IN  IF exact # {}
             THEN Match(name, names[CHOOSE i \in exact : \A j \in exact : i <= j])
             ELSE IF Len(names) # 0 /\ f[FirstBest(names, f)] >= AcceptScore
                  THEN Match(name, names[FirstBest(names, f)])
                  ELSE [NoMatch EXCEPT !.forced = TRUE]

\* sanitize_names_fuzzy: the matches of the names that have one.
sanitize_names_fuzzy(names, name_list, score_of) ==
    LET all == [i \in 1..Len(name_list) |->
                    sanitize_name_fuzzy(names, name_list[i], score_of[name_list[i]])]
    IN  SelectSeq(all, LAMBDA match : match.some)

\* sanitize_space: the name the query gives the space, or None.
sanitize_space(original_query, space_name) ==
    IF space_name = None \/ space_name = "" THEN None ELSE space_name

\* sanitize_projects, sanitize_environments, sanitize_tenants.
sanitize_projects(projects) == sanitize_list(projects)
sanitize_environments(original_query, names) == sanitize_list(names)
sanitize_tenants(names) == sanitize_list(names)

\* get_item_or_none.
get_item_or_none(items, index) ==
    IF index + 1 <= Len(items) THEN items[index + 1] ELSE None

\* What get_spaces_generator and get_projects_generator yield.
PlatformSpaces == <<"Default", "Staging">>
PlatformProjects == <<"WebApp", "Billing">>
PlatformScores(names) ==
    [name \in {"default", "Defalt", "Nowhere", "webapp", "Biling"} |->
        [c \in {names[i] : i \in 1..Len(names)} |-> Similarity(name, c)]]

\* The wildcard of a list-valued filter.
AllSentinel == <<"<all>">>

\* Lines 713, 489: sanitized_space["original"] in place of ["matched"].
MatchedOrNone_Original(sanitized) ==
    IF sanitized.some THEN sanitized.original ELSE None

\* Lines 713, 489: sanitized_space["matched"] if sanitized_space else None.
MatchedOrNone(sanitized) ==
    IF sanitized.some THEN sanitized.matched ELSE None

\* The space left as get_default_argument returned it.
SpaceOrDefault_Unset(space_name) == space_name

\* Lines 491-492, 567-568, 621-622, 715-716, 811-812, 860-861:
\* if not space: space = "Default".
SpaceOrDefault(space_name) ==
    IF space_name = None \/ space_name = "" THEN "Default" ELSE space_name

\* The arguments of a releases query.
SpaceArguments == {None, "default", "Nowhere"}
ProjectArguments == {NoneList, List(<<"webapp">>), List(<<"Nowhere">>)}
EnvironmentArguments == {NoneList, List(<<"Production">>)}
TenantArguments == {List(<<>>), List(<<"Contoso">>)}

\* Lines 702-791: releases_query_callback, as the arguments it resolves and
\* what it passes to collect_llm_context.
releases_query_callback(store, user, original_query, space, projects, envs, tens) ==
    LET sanitized_environments == sanitize_environments(original_query, envs)
        sanitized_tenants == sanitize_tenants(tens)
        space_name == sanitize_space(original_query, space)
        sanitized_space ==
            sanitize_name_fuzzy(PlatformSpaces, space_name,
                                IF space_name = None THEN <<>>
                                ELSE PlatformScores(PlatformSpaces)[space_name])
        space_argument == get_default_argument(store, user, MatchedOrNone(sanitized_space),
                                               "Space")
        sanitized_projects ==
            sanitize_names_fuzzy(PlatformProjects, sanitize_projects(projects),
                                 PlatformScores(PlatformProjects))
        resolved_project ==
            get_item_or_none([i \in 1..Len(sanitized_projects) |->
                                 MatchedOrNone(sanitized_projects[i])], 0)
        query_project == get_default_argument(store, user, resolved_project, "Project")
        query_environments ==
            get_default_argument_list(store, user, sanitized_environments, "Environment")
        query_tenants ==
            get_default_argument_list(store, user, sanitized_tenants, "Tenant")
    IN  [sanitized_space |-> sanitized_space,
         space_argument |-> space_argument,
         space |-> SpaceOrDefault(space_argument),
         sanitized_projects |-> sanitized_projects,
         query_project |-> query_project,
         query_environments |-> query_environments,
         query_tenants |-> query_tenants,
         context_tenants |-> query_tenants,
         context_environments |->
            IF Len(query_environments) = 0 THEN AllSentinel ELSE query_environments,
         additional_information |-> (query_project = None \/ query_project = "")]

\* The spaces get_spaces_generator may yield, in any order, and the names a
\* query may give the space.
CandidateNames == {"Default", "Staging", "Deft"}
CandidateLists ==
    {l \in UNION {[1..n -> CandidateNames] : n \in 0..Cardinality(CandidateNames)} :
        \A i, j \in 1..Len(l) : l[i] = l[j] => i = j}
SpaceNameInputs == {None, "", "default", "Defalt"}

\* Line 485 with a generator whose first item was already taken.
SpaceCandidates_Consumed(space_list) ==
    IF Len(space_list) = 0 THEN space_list ELSE Tail(space_list)

\* Line 485: the lambda yields get_spaces_generator(api_key, url), all of it.
SpaceCandidates(space_list) == space_list

\* Line 485 without the lambda: the generator is made before the call.
SourceCalls_Eager(sanitized) == 1

\* Line 485: the lambda is called when sanitize_name_fuzzy calls it.
SourceCalls(sanitized) == IF sanitized.forced THEN 1 ELSE 0

\* A tool call with its arguments; no tool call.
NoRequest ==
    [tool |-> None, user |-> None, default_name |-> None, default_value |-> None,
     space |-> None, projects |-> NoneList, environments |-> NoneList,
     tenants |-> NoneList]
NoOutcome == [text |-> <<>>]

(***************************************************************************)
(* The machines a specification does not run.                               *)
(***************************************************************************)
DefaultsIdle ==
    /\ defaults_store = NoDefaults
    /\ request = NoRequest
    /\ tool_outcome = NoOutcome

DashboardIdle ==
    /\ gpc = "idle"
    /\ github_user = "U"
    /\ spaces = <<>>
    /\ scores = [c \in CandidateNames |-> 0]
    /\ space_name_argument = None
    /\ tool_space_name = None
    /\ tool_sanitized_space = NoMatch
    /\ source_calls = 0
    /\ platform_calls = 0

WrapperIdle ==
    /\ wrapper = "deploy_release"
    /\ wrapper_query = ""
    /\ has_logging = FALSE
    /\ declared = <<>>
    /\ kwargs = <<>>
    /\ wpc = "idle"
    /\ ki = 0
    /\ logged = <<>>
    /\ callback_calls = <<>>
    /\ callback_result = NoResult
    /\ wrapper_result = NoResult

DeployIdle ==
    /\ environment_names = NoneList
    /\ tenant_names = NoneList
    /\ dates = NoneList
    /\ max_results = 0
    /\ n_releases = 0
    /\ pc = "idle"
    /\ ri = 0
    /\ n_items = 0
    /\ di = 0
    /\ deployment = NoDeployment
    /\ retained = FALSE
    /\ deployments = <<>>
    /\ result = [Deployments |-> <<>>]
    /\ lookups = NoLookups

HandlerIdle ==
    /\ req = NoHttpRequest
    /\ searches = <<>>
    /\ auth = "headers"
    /\ client_redirect_set = TRUE
    /\ max_chars = 1
    /\ hpc = "idle"
    /\ query = ""
    /\ selection = NoSelection
    /\ function_call = NoCall
    /\ calls = <<>>
    /\ handler_result = <<>>
    /\ raised = NoException
    /\ handle_error_calls = 0
    /\ escaped = FALSE
    /\ response = NoResponse
    /\ logs = <<>>
    /\ llm_context = NoContext

DeployInit ==
    /\ DashboardIdle
    /\ DefaultsIdle
    /\ HandlerIdle
    /\ WrapperIdle
    /\ environment_names \in EnvironmentNameInputs
    /\ tenant_names \in TenantNameInputs
    /\ dates \in DatesInputs
    /\ max_results \in 0..MaxCap
    /\ n_releases \in 0..MaxReleases
    /\ pc = "release_loop"
    /\ ri = 0
    /\ n_items = 0
    /\ di = 0
    /\ deployment = NoDeployment
    /\ retained = FALSE
    /\ deployments = <<>>
    /\ result = [Deployments |-> <<>>]
    /\ lookups = NoLookups

\* Lines 47-49: the next release of releases["Items"], and the fetch of its
\* deployments; or the end of the list.
NextRelease ==
    /\ pc = "release_loop"
    /\ ri < n_releases
    /\ ri' = ri + 1
    /\ \E n \in 0..MaxItems : n_items' = n
    /\ di' = 0
    /\ deployment' = NoDeployment
    /\ retained' = FALSE
    /\ pc' = "deployment_loop"
    /\ UNCHANGED <<environment_names, tenant_names, dates, max_results,
                   n_releases, deployments, result, lookups>>

\* Lines 50-101: one deployment of release_deployments["Items"]; the break of
\* line 101 leads to the test of line 103, and the KeyError of line 80 ends
\* the call.
NextDeployment ==
    /\ pc = "deployment_loop"
    /\ di < n_items
    /\ di' = di + 1
    /\ \E envs \in {environments}, tens \in {tenants}, d \in DeploymentItems :
        /\ deployment' = d
        /\ IF /\ EnvironmentKeeps(d, envs)
              /\ TenantKeeps(d, tens)
              /\ DateKeeps(d, dates)
           THEN /\ retained' = TRUE
                /\ lookups' = Lookups(lookups, d)
                /\ IF RecordRaises(d)
                   THEN /\ deployments' = deployments
                        /\ pc' = "raised"
                   ELSE \E appended \in {Append(deployments,
                                                DeploymentRecord(Release(ri), d,
                                                                 envs, tens))} :
                            /\ deployments' = appended
                            /\ pc' = IF CapReached(appended, max_results)
                                     THEN AfterDeployments(appended, max_results)
                                     ELSE "deployment_loop"
           ELSE /\ retained' = FALSE
                /\ lookups' = lookups
                /\ deployments' = deployments
                /\ pc' = "deployment_loop"
    /\ UNCHANGED <<environment_names, tenant_names, dates, max_results,
                   n_releases, ri, n_items, result>>

\* The inner loop runs out of deployments, and lines 103-104 leave the release
\* loop when the cap is reached.
EndOfDeployments ==
    /\ pc = "deployment_loop"
    /\ di = n_items
    /\ pc' = AfterDeployments(deployments, max_results)
    /\ UNCHANGED <<environment_names, tenant_names, dates, max_results,
                   n_releases, ri, n_items, di, deployment, retained, deployments,
                   result, lookups>>

\* The release loop runs out of releases.
EndOfReleases ==
    /\ pc = "release_loop"
    /\ ri = n_releases
    /\ pc' = "return"
    /\ UNCHANGED <<environment_names, tenant_names, dates, max_results,
                   n_releases, ri, n_items, di, deployment, retained, deployments,
                   result, lookups>>

\* Line 106.
Return ==
    /\ pc = "return"
    /\ result' = ReturnValue(deployments, max_results)
    /\ pc' = "done"
    /\ UNCHANGED <<environment_names, tenant_names, dates, max_results,
                   n_releases, ri, n_items, di, deployment, retained, deployments,
                   lookups>>

DeployNext ==
    \/ (NextRelease /\ UNCHANGED <<hvars, wvars, svars, gvars>>)
    \/ (NextDeployment /\ UNCHANGED <<hvars, wvars, svars, gvars>>)
    \/ (EndOfDeployments /\ UNCHANGED <<hvars, wvars, svars, gvars>>)
    \/ (EndOfReleases /\ UNCHANGED <<hvars, wvars, svars, gvars>>)
    \/ (Return /\ UNCHANGED <<hvars, wvars, svars, gvars>>)

SpecDeployments == DeployInit /\ [][DeployNext]_vars

\* The same call with longer lists to return: one environment is requested,
\* no tenant and no dates.
DeployListInit ==
    /\ DashboardIdle
    /\ DefaultsIdle
    /\ HandlerIdle
    /\ WrapperIdle
    /\ environment_names = List(<<"Production">>)
    /\ tenant_names = List(<<>>)
    /\ dates = NoneList
    /\ max_results \in 0..MaxListCap
    /\ n_releases \in 0..MaxReleases
    /\ pc = "release_loop"
    /\ ri = 0
    /\ n_items = 0
    /\ di = 0
    /\ deployment = NoDeployment
    /\ retained = FALSE
    /\ deployments = <<>>
    /\ result = [Deployments |-> <<>>]
    /\ lookups = NoLookups

SpecDeploymentLists == DeployListInit /\ [][DeployNext]_vars

(***************************************************************************)
(* copilot_handler_internal                                                 *)
(***************************************************************************)
HandlerInit ==
    /\ DashboardIdle
    /\ DefaultsIdle
    /\ DeployIdle
    /\ WrapperIdle
    /\ req \in Requests
    /\ searches = <<>>
    /\ auth \in AuthSituations
    /\ client_redirect_set \in BOOLEAN
    /\ max_chars \in 1..MaxChars
    /\ hpc = "extract"
    /\ query = ""
    /\ selection = NoSelection
    /\ function_call = NoCall
    /\ calls = <<>>
    /\ handler_result = <<>>
    /\ raised = NoException
    /\ handle_error_calls = 0
    /\ escaped = FALSE
    /\ response = NoResponse
    /\ logs = <<>>
    /\ llm_context = NoContext

\* Line 961: query = extract_query(req).
ExtractQuery ==
    /\ hpc = "extract"
    /\ LET extracted == extract_query(req)
       IN  /\ query' = extracted.query
           /\ handle_error_calls' = handle_error_calls + extracted.handle_errors
    /\ hpc' = "query"
    /\ UNCHANGED <<req, searches, auth, client_redirect_set, max_chars,
                   selection, function_call, calls, handler_result, raised,
                   escaped, response, logs, llm_context>>

\* Lines 964-967: an empty query is answered with a sample question.
EmptyQuery ==
    /\ hpc = "query"
    /\ IsBlank(query)
    /\ response' = SseResponse(SampleQuestionText)
    /\ hpc' = "done"
    /\ UNCHANGED <<req, searches, auth, client_redirect_set, max_chars, query,
                   selection, function_call, calls, handler_result, raised,
                   handle_error_calls, escaped, logs, llm_context>>

\* Lines 969-972: llm_tool_query(query, build_form_tools, log_query) returns the
\* function call for the model's selection.
LlmToolQuery ==
    /\ hpc = "query"
    /\ ~ IsBlank(query)
    /\ \E sel \in Selections :
        /\ selection' = sel
        /\ function_call' = Dispatch(build_form_tools, sel)
    /\ hpc' = "call"
    /\ UNCHANGED <<req, searches, auth, client_redirect_set, max_chars, query,
                   calls, handler_result, raised, handle_error_calls, escaped,
                   response, logs, llm_context>>

\* Lines 969-972: llm_tool_query raises.
LlmToolQueryRaises ==
    /\ hpc = "query"
    /\ ~ IsBlank(query)
    /\ \E e \in LlmExceptions : raised' = e
    /\ hpc' = "boundary"
    /\ UNCHANGED <<req, searches, auth, client_redirect_set, max_chars, query,
                   selection, function_call, calls, handler_result,
                   handle_error_calls, escaped, response, logs, llm_context>>

\* Line 972: call_function() invokes the tool of the function call.
CallFunction ==
    /\ hpc = "call"
    /\ calls' = Append(calls, function_call)
    /\ hpc' = IF function_call.callback \in ApiKeyCallbacks THEN "get_api_key"
              ELSE IF function_call.callback = "how_to_callback" THEN "search"
              ELSE "body"
    /\ UNCHANGED <<req, searches, auth, client_redirect_set, max_chars, query,
                   selection, function_call, handler_result, raised,
                   handle_error_calls, escaped, response, logs, llm_context>>

\* Lines 430-472: the callback's api_key, url = get_api_key_and_url().
GetApiKeyAndUrl ==
    /\ hpc = "get_api_key"
    /\ LET e == get_api_key_and_url(auth)
       IN  /\ raised' = e
           /\ hpc' = IF e = NoException THEN "body" ELSE "boundary"
    /\ UNCHANGED <<req, searches, auth, client_redirect_set, max_chars, query,
                   selection, function_call, calls, handler_result,
                   handle_error_calls, escaped, response, logs, llm_context>>

\* Line 911: how_to_callback searches the documentation with the user's
\* GitHub token.
SearchRepo ==
    /\ hpc = "search"
    /\ \E e \in SearchOutcomes :
        /\ searches' = Append(searches, Search("token", e))
        /\ hpc' = AfterSearch("token", e)
        /\ raised' = IF AfterSearch("token", e) = "boundary" THEN e ELSE raised
    /\ UNCHANGED <<req, auth, client_redirect_set, max_chars, query, selection,
                   function_call, calls, handler_result, handle_error_calls,
                   escaped, response, logs, llm_context>>

\* Line 914: the search is made again without a token.
SearchRepoRetry ==
    /\ hpc = "search_retry"
    /\ \E e \in SearchOutcomes :
        /\ searches' = Append(searches, Search("anonymous", e))
        /\ hpc' = AfterSearch("anonymous", e)
        /\ raised' = IF AfterSearch("anonymous", e) = "boundary" THEN e ELSE raised
    /\ UNCHANGED <<req, auth, client_redirect_set, max_chars, query, selection,
                   function_call, calls, handler_result, handle_error_calls,
                   escaped, response, logs, llm_context>>

\* A call the callback makes raises.
HandlerRaises ==
    /\ hpc = "body"
    /\ \E e \in HandlerExceptions(function_call.callback) : raised' = e
    /\ hpc' = "boundary"
    /\ UNCHANGED <<req, searches, auth, client_redirect_set, max_chars, query,
                   selection, function_call, calls, handler_result,
                   handle_error_calls, escaped, response, logs, llm_context>>

\* The callback returns its answer.
HandlerReturns ==
    /\ hpc = "body"
    /\ function_call.callback # "logs_callback"
    /\ handler_result' = AnswerText
    /\ hpc' = "respond"
    /\ UNCHANGED <<req, searches, auth, client_redirect_set, max_chars, query,
                   selection, function_call, calls, raised, handle_error_calls,
                   escaped, response, logs, llm_context>>

\* Lines 829-840: logs_callback fetches the log, keeps its end and asks the
\* language model.
LogsCallback ==
    /\ hpc = "body"
    /\ function_call.callback = "logs_callback"
    /\ \E log \in LogTexts :
        /\ logs' = log
        /\ llm_context' = [input |-> query, context |-> LogExcerpt(log, max_chars)]
    /\ handler_result' = AnswerText
    /\ hpc' = "respond"
    /\ UNCHANGED <<req, searches, auth, client_redirect_set, max_chars, query,
                   selection, function_call, calls, raised, handle_error_calls,
                   escaped, response>>

\* Line 974: the answer is returned as an event stream.
Respond ==
    /\ hpc = "respond"
    /\ response' = SseResponse(handler_result)
    /\ hpc' = "done"
    /\ UNCHANGED <<req, searches, auth, client_redirect_set, max_chars, query,
                   selection, function_call, calls, handler_result, raised,
                   handle_error_calls, escaped, logs, llm_context>>

\* Lines 976-1016: the exception reaches the except clauses.
Boundary ==
    /\ hpc = "boundary"
    /\ LET outcome == ExceptClauses(raised, client_redirect_set)
       IN  /\ escaped' = outcome.escaped
           /\ handle_error_calls' = handle_error_calls + outcome.handle_errors
           /\ response' = outcome.response
    /\ hpc' = "done"
    /\ UNCHANGED <<req, searches, auth, client_redirect_set, max_chars, query,
                   selection, function_call, calls, handler_result, raised,
                   logs, llm_context>>

HandlerNext ==
    \/ (ExtractQuery /\ UNCHANGED <<dvars, wvars, svars, gvars>>)
    \/ (EmptyQuery /\ UNCHANGED <<dvars, wvars, svars, gvars>>)
    \/ (LlmToolQuery /\ UNCHANGED <<dvars, wvars, svars, gvars>>)
    \/ (LlmToolQueryRaises /\ UNCHANGED <<dvars, wvars, svars, gvars>>)
    \/ (CallFunction /\ UNCHANGED <<dvars, wvars, svars, gvars>>)
    \/ (GetApiKeyAndUrl /\ UNCHANGED <<dvars, wvars, svars, gvars>>)
    \/ (SearchRepo /\ UNCHANGED <<dvars, wvars, svars, gvars>>)
    \/ (SearchRepoRetry /\ UNCHANGED <<dvars, wvars, svars, gvars>>)
    \/ (HandlerRaises /\ UNCHANGED <<dvars, wvars, svars, gvars>>)
    \/ (HandlerReturns /\ UNCHANGED <<dvars, wvars, svars, gvars>>)
    \/ (LogsCallback /\ UNCHANGED <<dvars, wvars, svars, gvars>>)
    \/ (Respond /\ UNCHANGED <<dvars, wvars, svars, gvars>>)
    \/ (Boundary /\ UNCHANGED <<dvars, wvars, svars, gvars>>)

SpecHandler == HandlerInit /\ [][HandlerNext]_vars

(***************************************************************************)
(* A call of a tool wrapper.                                                *)
(***************************************************************************)
WrapperInit ==
    /\ DashboardIdle
    /\ DefaultsIdle
    /\ DeployIdle
    /\ HandlerIdle
    /\ wrapper \in Wrappers
    /\ wrapper_query \in Queries \ {""}
    /\ has_logging \in BOOLEAN
    /\ declared \in [1..DeclaredCount(wrapper) -> ArgumentValues]
    /\ kwargs \in KwargsInputs
    /\ wpc = "enter"
    /\ ki = 0
    /\ logged = <<>>
    /\ callback_calls = <<>>
    /\ callback_result = NoResult
    /\ wrapper_result = NoResult

\* deploy_release.py lines 16-17: the entry is logged; octolint_unused_projects
\* has no such line.
WrapperEnter ==
    /\ wpc = "enter"
    /\ logged' = IF wrapper = "deploy_release" /\ has_logging
                 THEN Append(logged, EnterEntry) ELSE logged
    /\ wpc' = "kwargs_loop"
    /\ UNCHANGED <<wrapper, wrapper_query, has_logging, declared, kwargs, ki,
                   callback_calls, callback_result, wrapper_result>>

\* deploy_release.py lines 19-21, octolint_unused_projects.py lines 18-20: one
\* pass of the loop over kwargs.items().
LogUnexpectedKey ==
    /\ wpc = "kwargs_loop"
    /\ ki < Len(kwargs)
    /\ ki' = ki + 1
    /\ logged' = IF has_logging
                 THEN Append(logged, UnexpectedKeyEntry(kwargs[ki + 1][1]))
                 ELSE logged
    /\ UNCHANGED <<wrapper, wrapper_query, has_logging, declared, kwargs, wpc,
                   callback_calls, callback_result, wrapper_result>>

\* deploy_release.py lines 24-29, octolint_unused_projects.py line 22: the
\* callback is called and what it returns is returned.
CallCallback ==
    /\ wpc = "kwargs_loop"
    /\ ki = Len(kwargs)
    /\ callback_calls' =
            Append(callback_calls, CallArguments(wrapper, wrapper_query, declared, kwargs))
    /\ \E r \in CallbackResults :
            /\ callback_result' = r
            /\ wrapper_result' = r
    /\ wpc' = "done"
    /\ UNCHANGED <<wrapper, wrapper_query, has_logging, declared, kwargs, ki, logged>>

WrapperNext ==
    \/ (WrapperEnter /\ UNCHANGED <<dvars, hvars, svars, gvars>>)
    \/ (LogUnexpectedKey /\ UNCHANGED <<dvars, hvars, svars, gvars>>)
    \/ (CallCallback /\ UNCHANGED <<dvars, hvars, svars, gvars>>)

SpecWrappers == WrapperInit /\ [][WrapperNext]_vars

(***************************************************************************)
(* The tool calls that read and write the defaults: each action is a        *)
(* request by a user, one after another.                                    *)
(***************************************************************************)
DefaultsInit ==
    /\ DashboardIdle
    /\ DeployIdle
    /\ HandlerIdle
    /\ WrapperIdle
    /\ defaults_store = NoDefaults
    /\ request = NoRequest
    /\ tool_outcome = NoOutcome

\* A request the language model answers with set_default_value.
SetDefaultValue ==
    \E user \in Users, input \in SetDefaultInputs :
        \E done \in {set_default_value(defaults_store, user, input[1], input[2])} :
            /\ request' = [NoRequest EXCEPT !.tool = "set_default_value",
                                            !.user = user,
                                            !.default_name = input[1],
                                            !.default_value = input[2]]
            /\ defaults_store' = done.store
            /\ tool_outcome' = [text |-> done.text]

\* A request answered with get_default_value.
GetDefaultValue ==
    \E user \in Users, default_name \in GetDefaultNames :
        \E done \in {get_default_value(defaults_store, user, default_name)} :
            /\ request' = [NoRequest EXCEPT !.tool = "get_default_value",
                                            !.user = user,
                                            !.default_name = default_name]
            /\ defaults_store' = done.store
            /\ tool_outcome' = [text |-> done.text]

\* A request answered with remove_default_value.
RemoveDefaultValue ==
    \E user \in Users :
        \E done \in {remove_default_value(defaults_store, user)} :
            /\ request' = [NoRequest EXCEPT !.tool = "remove_default_value",
                                            !.user = user]
            /\ defaults_store' = done.store
            /\ tool_outcome' = [text |-> done.text]

\* A request answered with answer_releases_and_deployments, which runs
\* releases_query_callback.
ReleasesQuery ==
    \E user \in Users, space \in SpaceArguments, projects \in ProjectArguments,
       envs \in EnvironmentArguments, tens \in TenantArguments :
        /\ request' = [NoRequest EXCEPT !.tool = "answer_releases_and_deployments",
                                        !.user = user,
                                        !.space = space,
                                        !.projects = projects,
                                        !.environments = envs,
                                        !.tenants = tens]
        /\ tool_outcome' = releases_query_callback(defaults_store, user,
                                              "Show me the releases", space, projects,
                                              envs, tens)
        /\ UNCHANGED defaults_store

DefaultsNext ==
    \/ (SetDefaultValue /\ UNCHANGED <<dvars, hvars, wvars, gvars>>)
    \/ (GetDefaultValue /\ UNCHANGED <<dvars, hvars, wvars, gvars>>)
    \/ (RemoveDefaultValue /\ UNCHANGED <<dvars, hvars, wvars, gvars>>)
    \/ (ReleasesQuery /\ UNCHANGED <<dvars, hvars, wvars, gvars>>)

SpecDefaults == DefaultsInit /\ [][DefaultsNext]_vars

(***************************************************************************)
(* get_dashboard_tool: the resolution of the space.                         *)
(***************************************************************************)
DashboardInit ==
    /\ DeployIdle
    /\ HandlerIdle
    /\ WrapperIdle
    /\ request = NoRequest
    /\ tool_outcome = NoOutcome
    /\ github_user \in Users
    /\ defaults_store \in
            {NoDefaults, save_default_values(NoDefaults, "U", "space", "Staging")}
    /\ spaces \in CandidateLists
    /\ scores \in [CandidateNames -> 0..MaxScore]
    /\ space_name_argument \in SpaceNameInputs
    /\ tool_space_name = space_name_argument
    /\ gpc = "sanitize"
    /\ tool_sanitized_space = NoMatch
    /\ source_calls = 0
    /\ platform_calls = 0

\* Lines 485-486: tool_sanitized_space = sanitize_name_fuzzy(lambda: ..., ...).
SanitizeSpace ==
    /\ gpc = "sanitize"
    /\ \E sanitized \in {sanitize_name_fuzzy(SpaceCandidates(spaces),
                                              sanitize_space("Show me the dashboard",
                                                             tool_space_name),
                                              scores)} :
            /\ tool_sanitized_space' = sanitized
            /\ source_calls' = source_calls + SourceCalls(sanitized)
    /\ gpc' = "default_argument"
    /\ UNCHANGED <<github_user, spaces, scores, space_name_argument, tool_space_name,
                   platform_calls, defaults_store>>

\* Lines 488-489: tool_space_name = get_default_argument(...).
GetDefaultArgument ==
    /\ gpc = "default_argument"
    /\ tool_space_name' = get_default_argument(defaults_store, github_user,
                                          MatchedOrNone(tool_sanitized_space), "Space")
    /\ gpc' = "fallback"
    /\ UNCHANGED <<github_user, spaces, scores, space_name_argument, tool_sanitized_space,
                   source_calls, platform_calls, defaults_store>>

\* Lines 491-492: if not tool_space_name: tool_space_name = "Default".
DefaultSpace ==
    /\ gpc = "fallback"
    /\ tool_space_name' = SpaceOrDefault(tool_space_name)
    /\ gpc' = "dashboard"
    /\ UNCHANGED <<github_user, spaces, scores, space_name_argument, tool_sanitized_space,
                   source_calls, platform_calls, defaults_store>>

\* Lines 494-496: the space is looked up by its name and the dashboard is
\* fetched and returned.
GetDashboard ==
    /\ gpc = "dashboard"
    /\ platform_calls' = platform_calls + 1
    /\ gpc' = "done"
    /\ UNCHANGED <<github_user, spaces, scores, space_name_argument, tool_space_name,
                   tool_sanitized_space, source_calls, defaults_store>>

DashboardNext ==
    \/ (SanitizeSpace /\ UNCHANGED <<dvars, hvars, wvars, request, tool_outcome>>)
    \/ (GetDefaultArgument /\ UNCHANGED <<dvars, hvars, wvars, request, tool_outcome>>)
    \/ (DefaultSpace /\ UNCHANGED <<dvars, hvars, wvars, request, tool_outcome>>)
    \/ (GetDashboard /\ UNCHANGED <<dvars, hvars, wvars, request, tool_outcome>>)

SpecDashboard == DashboardInit /\ [][DashboardNext]_vars

(***************************************************************************)
(* Properties of get_deployments_for_project.                               *)
(***************************************************************************)
\* The inner loop has looked at a deployment of the current release.
Examined == deployment # NoDeployment

\* The ids of the requested environments and tenants.
RequestedEnvironmentIds == {environments[i].Id : i \in 1..Len(environments)}
RequestedTenantIds == {tenants[i].Id : i \in 1..Len(tenants)}

\* The deployment passes the environment and tenant filters, as the
\* specification states them.
InRequestedSets(d) ==
    /\ (RequestedEnvironmentIds = {} \/ d.EnvironmentId \in RequestedEnvironmentIds)
    /\ (RequestedTenantIds = {} \/ d.TenantId \in RequestedTenantIds)

TwoDates == dates.some /\ Len(dates.val) = 2

\* The deployment was created in [min(date1, date2), max(date1, date2)].
InDateRange(d, date1, date2) ==
    LET created == parse_unknown_format_date(d.Created)
        a == parse_unknown_format_date(date1)
        b == parse_unknown_format_date(date2)
    IN  /\ (IF a <= b THEN a ELSE b) <= created
        /\ created <= (IF a <= b THEN b ELSE a)

\* C1: whatever the releases, the deployments, the filters and max_results >= 0,
\* the "Deployments" list returned holds at most max_results deployments.
C1_AtMostMaxResults ==
    pc = "done" => Len(result.Deployments) <= max_results

\* C1, witness: the call returned exactly max_results >= 1 deployments and left
\* deployments and releases unscanned.
C1_Witness ==
    /\ pc = "done"
    /\ max_results >= 1
    /\ Len(result.Deployments) = max_results
    /\ di < n_items
    /\ ri < n_releases

\* C2 as stated: once the number of retained deployments has reached
\* max_results, no release has its deployments fetched (ri is unchanged) and no
\* deployment is examined (di is unchanged).
C2_Original_NoScanAfterCap ==
    [][(pc # "done" /\ Len(deployments) >= max_results)
            => (ri' = ri /\ di' = di)]_vars

\* C2, amended: for max_results >= 1, once the number of retained deployments
\* has reached max_results, no release has its deployments fetched and no
\* deployment is examined.
C2_NoScanAfterCap ==
    [][(max_results >= 1 /\ Len(deployments) >= max_results)
            => (ri' = ri /\ di' = di)]_vars

\* C2, witness: the cap was reached with a later deployment of the same release
\* and a later release left, and the call is over.
C2_Witness ==
    /\ pc = "done"
    /\ max_results >= 1
    /\ Len(deployments) = max_results
    /\ retained
    /\ di < n_items
    /\ ri < n_releases

\* C3: with exactly two dates, a deployment that passes the environment and
\* tenant filters is retained if and only if it was created in
\* [min(date1, date2), max(date1, date2)], both bounds included; and the date
\* filter decides each deployment it is given alike when the two dates are
\* swapped, so the list built is the same.
C3_DateRangeInclusiveAndSymmetric ==
    (TwoDates /\ Examined) =>
        /\ InRequestedSets(deployment)
                => (retained <=> InDateRange(deployment, dates.val[1], dates.val[2]))
        /\ DateKeeps(deployment, dates)
                = DateKeeps(deployment, List(<<dates.val[2], dates.val[1]>>))

\* C3, witness: the later date was given first, and a deployment created on
\* that very day was retained.
C3_Witness ==
    /\ dates = List(<<"2024-01-10", "2024-01-01">>)
    /\ Examined
    /\ deployment.Created = "2024-01-10"
    /\ retained

\* C4: a deployment that the date filter does not exclude is retained if and
\* only if (no environment was requested or its EnvironmentId is the Id of a
\* requested environment) and (no tenant was requested or its TenantId is the
\* Id of a requested tenant).
C4_EnvironmentAndTenantFilter ==
    (Examined /\ (TwoDates => InDateRange(deployment, dates.val[1], dates.val[2])))
        => (retained <=> InRequestedSets(deployment))

\* C4, witness: two environments and a tenant were requested, and a
\* deployment to the second environment for that tenant was retained.
C4_Witness ==
    /\ Len(environments) = 2
    /\ Len(tenants) = 1
    /\ Examined
    /\ deployment.EnvironmentId = environments[2].Id
    /\ deployment.TenantId = tenants[1].Id
    /\ retained

(***************************************************************************)
(* Properties of copilot_handler_internal.                                  *)
(***************************************************************************)
\* The text of the response: the parts of its first frame.
ResponseText == response.body[1].value
TextHolds(text, part) == \E i \in 1..Len(text) : text[i] = part

\* logs_callback has given the language model its context.
LogsCallbackRan ==
    /\ hpc \in {"respond", "done"}
    /\ function_call.callback = "logs_callback"

\* C5: in logs_callback, for a log of length L and a budget B = max_chars with
\* B < L the context given to the language model is exactly the last B
\* characters of the log; with L <= B it is the whole log.
C5_LogTailWithinBudget ==
    LogsCallbackRan =>
        LET L == Len(logs)
            B == max_chars
            context == llm_context.context
        IN  IF B < L
            THEN /\ Len(context) = B
                 /\ \A i \in 1..B : context[i] = logs[L - B + i]
            ELSE context = logs

\* C5, witness: a log longer than the budget, whose first and last characters
\* differ, was cut to the budget.
C5_Witness ==
    /\ LogsCallbackRan
    /\ hpc = "done"
    /\ Len(logs) > max_chars
    /\ logs[1] # logs[Len(logs)]
    /\ Len(llm_context.context) = max_chars

\* The language model selected a tool name that is not registered.
UnknownToolSelected ==
    /\ selection.kind = "tool"
    /\ \A i \in 1..Len(build_form_tools.functions) :
            build_form_tools.functions[i].name # selection.name

\* C6: when the selection matches no registered tool name, the fallback handler
\* (how_to, bound to how_to_callback) is invoked exactly once, and neither a
\* normal handler nor the invalid handler is invoked.
C6_UnknownToolRunsFallbackOnce ==
    UnknownToolSelected =>
        IF hpc = "call"
        THEN calls = <<>>
        ELSE /\ Len(calls) = 1
             /\ calls[1].role = "fallback"
             /\ calls[1].name = "how_to"
             /\ calls[1].callback = "how_to_callback"

\* C6, witness: an unregistered name was selected and the request was answered
\* with the fallback handler's answer.
C6_Witness ==
    /\ UnknownToolSelected
    /\ hpc = "done"
    /\ Len(calls) = 1
    /\ response = SseResponse(AnswerText)

\* The language model selected no tool, or its arguments could not be decoded.
NoUsableSelection == selection.kind \in {"no_tool", "invalid_args"}

\* C7: when the model knows no tool or the arguments are structurally invalid,
\* the invalid handler (the general-query tool, bound to
\* general_query_callback) is invoked once with no extracted arguments, and no
\* other handler is invoked.
C7_InvalidRunsGeneralQueryOnly ==
    NoUsableSelection =>
        IF hpc = "call"
        THEN calls = <<>>
        ELSE /\ Len(calls) = 1
             /\ calls[1].role = "invalid"
             /\ calls[1].name = "answer_general_query"
             /\ calls[1].callback = "general_query_callback"
             /\ calls[1].args = "none"

\* C7, witness: the model selected no tool, and the general query completed
\* without arguments and was answered.
C7_Witness ==
    /\ selection.kind = "no_tool"
    /\ hpc = "done"
    /\ raised = NoException
    /\ calls[1].args = "none"
    /\ response = SseResponse(AnswerText)

\* The body is in event-stream framing: at least one frame, each a data field.
EventStreamBody(body) ==
    /\ Len(body) >= 1
    /\ \A i \in 1..Len(body) : body[i].field = "data"

\* C8: no exception leaves copilot_handler_internal; whatever was raised, the
\* response carries Content-Type: text/event-stream and Cache-Control: no-cache
\* and a body in event-stream framing.
C8_EveryExceptionAnsweredAsEventStream ==
    /\ ~ escaped
    /\ (hpc = "done" /\ raised # NoException) =>
            /\ response.headers.ContentType = "text/event-stream"
            /\ response.headers.CacheControl = "no-cache"
            /\ EventStreamBody(response.body)

\* C8, witness: a handler raised an exception outside the taxonomy and the
\* request was answered.
C8_Witness ==
    /\ hpc = "done"
    /\ raised.type = "Exception"
    /\ Len(calls) = 1
    /\ response # NoResponse

\* C9 as stated: UserNotLoggedIn, UserNotConfigured and OctopusApiKeyInvalid are
\* each answered with the log-in message, without a handle_error call.
C9_Original_AllThreeAskToLogIn ==
    (hpc = "done"
        /\ raised.type \in {"UserNotLoggedIn", "UserNotConfigured", "OctopusApiKeyInvalid"})
        => (ResponseText = LoginText /\ handle_error_calls = 0)

\* C9, amended: UserNotConfigured and OctopusApiKeyInvalid are answered with
\* the log-in message without a handle_error call when GITHUB_CLIENT_REDIRECT
\* is set, and with the "An exception was raised" frame, status 500 and one
\* handle_error call when it is not; UserNotLoggedIn is answered with "Your
\* GitHub token is invalid." without a handle_error call.
C9_CredentialErrorsRecovered ==
    hpc = "done" =>
        /\ raised.type \in {"UserNotConfigured", "OctopusApiKeyInvalid"} =>
                IF client_redirect_set
                THEN /\ ResponseText = LoginText
                     /\ response.status_code = 200
                     /\ handle_error_calls = 0
                ELSE /\ ResponseText = ExceptionRaisedText
                     /\ response.status_code = 500
                     /\ handle_error_calls = 1
        /\ raised.type = "UserNotLoggedIn" =>
                /\ ResponseText = GitHubTokenInvalidText
                /\ handle_error_calls = 0

\* C9, witness: the stored key could not be decrypted and the user was asked
\* to log in.
C9_Witness ==
    /\ hpc = "done"
    /\ raised.type = "OctopusApiKeyInvalid"
    /\ client_redirect_set
    /\ ResponseText = LoginText

\* C10: a SpaceNotFound or ResourceNotFound raised by a handler is answered
\* with a text that holds the name (and the resource type) the exception
\* carries, and handle_error is not called.
C10_NotFoundNamesTheResource ==
    hpc = "done" =>
        /\ raised.type = "SpaceNotFound" =>
                /\ TextHolds(ResponseText, raised.name)
                /\ handle_error_calls = 0
        /\ raised.type = "ResourceNotFound" =>
                /\ TextHolds(ResponseText, raised.name)
                /\ TextHolds(ResponseText, raised.resource_type)
                /\ handle_error_calls = 0

\* C10, witness: a handler raised SpaceNotFound("My Space") and the answer
\* names that space.
C10_Witness ==
    /\ hpc = "done"
    /\ raised = SpaceNotFound("My Space")
    /\ Len(calls) = 1
    /\ TextHolds(ResponseText, "My Space")

\* C11: an OctopusRequestFailed or GitHubRequestFailed that reaches the except
\* clauses is passed to handle_error exactly once and answered with the fixed
\* message of its service, which holds no text of the exception.
C11_UpstreamFailureLoggedOnceAndGeneric ==
    hpc = "done" =>
        /\ raised.type = "OctopusRequestFailed" =>
                /\ handle_error_calls = 1
                /\ ResponseText = OctopusRequestFailedText
                /\ ~ TextHolds(ResponseText, raised.message)
        /\ raised.type = "GitHubRequestFailed" =>
                /\ handle_error_calls = 1
                /\ ResponseText = GitHubRequestFailedText
                /\ ~ TextHolds(ResponseText, raised.message)

\* C11, witness: get_github_user failed inside get_api_key_and_url, the failure
\* was logged once and answered with the GitHub message.
C11_Witness ==
    /\ hpc = "done"
    /\ auth = "github_failed"
    /\ raised = Exc("GitHubRequestFailed", "HTTP 401")
    /\ handle_error_calls = 1
    /\ ResponseText = GitHubRequestFailedText

\* The language model rejected the request for its content, or for its size.
ContentFiltered(e) ==
    \/ e.type = "OpenAIContentFilter"
    \/ e.type = "ValueError" /\ e.message = "content filter"
InputTooLarge(e) == e.type = "OpenAITokenLengthExceeded"

\* C12 as stated, at copilot_handler_internal: a content-filter rejection and
\* an input-too-large rejection are answered with texts that differ from each
\* other (the content-filter text is NO_FUNCTION_RESPONSE) and from the text
\* of the unexpected error.
C12_LlmRejectionsGetDistinctTexts ==
    hpc = "done" =>
        /\ ContentFiltered(raised) => ResponseText # UnexpectedErrorText
        /\ InputTooLarge(raised) =>
                /\ ResponseText # UnexpectedErrorText
                /\ ResponseText # NO_FUNCTION_RESPONSE

DeclaredArguments ==
    IF wrapper = "deploy_release" THEN <<wrapper_query>> \o declared ELSE declared

\* The entries logged for extra key k.
EntriesOfKey(k) == {i \in 1..Len(logged) : logged[i] = UnexpectedKeyEntry(k)}

\* C14: a call of deploy_release or octolint_unused_projects with any extra
\* keyword arguments completes, has called the callback exactly once with the
\* declared arguments only (which is what the call without the extra keys
\* passes), returns what the callback returned, and has logged each extra key
\* once if a logger was supplied and nothing about them otherwise.
C14_ExtraKeysOnlyLogged ==
    wpc = "done" =>
        /\ callback_calls = <<DeclaredArguments>>
        /\ wrapper_result = callback_result
        /\ wrapper_result \in CallbackResults
        /\ \A i \in 1..Len(kwargs) :
                Cardinality(EntriesOfKey(kwargs[i][1])) = IF has_logging THEN 1 ELSE 0
        /\ Len(logged) = IF has_logging
                         THEN Len(kwargs) + (IF wrapper = "deploy_release" THEN 1 ELSE 0)
                         ELSE 0

\* C14, witness: deploy_release was called with two extra keys and a logger,
\* and returned what its callback returned.
C14_Witness ==
    /\ wpc = "done"
    /\ wrapper = "deploy_release"
    /\ has_logging
    /\ Len(kwargs) = 2
    /\ Len(callback_calls) = 1
    /\ wrapper_result = "Deployment queued"

(***************************************************************************)
(* Properties of the defaults and of argument resolution.                   *)
(***************************************************************************)
ReleasesQueryRan == request.tool = "answer_releases_and_deployments"

Empty(value) == value = None \/ value = ""

\* The first value of the sequence that is not empty, or None.
FirstNonEmpty(values) ==
    IF \A i \in 1..Len(values) : Empty(values[i])
    THEN None
    ELSE values[CHOOSE i \in 1..Len(values) :
                    /\ ~ Empty(values[i])
                    /\ \A j \in 1..(i - 1) : Empty(values[j])]

\* The three sources of the project and of the space of the last releases
\* query: the name given, the resolver's match and the user's default.
ExplicitProject == get_item_or_none(sanitize_projects(request.projects), 0)
ResolvedProject ==
    IF Len(tool_outcome.sanitized_projects) = 0
    THEN None ELSE tool_outcome.sanitized_projects[1].matched
DefaultOf(key) == get_default_values(defaults_store, request.user, key)
ResolvedSpace ==
    IF tool_outcome.sanitized_space.some
    THEN tool_outcome.sanitized_space.matched ELSE None

C16_WildcardForUnsetFilters ==
    ReleasesQueryRan =>
        /\ (Len(sanitize_list(request.environments)) = 0 /\ Empty(DefaultOf("environment")))
                => tool_outcome.context_environments = AllSentinel
        /\ (Len(sanitize_list(request.tenants)) = 0 /\ Empty(DefaultOf("tenant")))
                => tool_outcome.context_tenants = AllSentinel

\* The last request was a releases query that named no project.
NoProjectNamed ==
    /\ ReleasesQueryRan
    /\ Len(sanitize_projects(request.projects)) = 0

\* C17: once set_default_value("Project", "WebApp") has completed for a user,
\* the user's default project is "WebApp"; it stays so until a
\* set_default_value of the project or a remove_default_value by the same
\* user; and while it is so, a releases query of the user that names no
\* project resolves the project to "WebApp".
C17_DefaultProjectUsedUntilChanged ==
    /\ [](\A u \in Users :
            (request.tool = "set_default_value" /\ request.user = u
                /\ request.default_name = "Project" /\ request.default_value = "WebApp")
                => defaults_store[u]["project"] = "WebApp")
    /\ [][\A u \in Users :
            (defaults_store[u]["project"] = "WebApp"
                /\ defaults_store'[u]["project"] # "WebApp")
                => /\ request'.user = u
                   /\ \/ request'.tool = "remove_default_value"
                      \/ /\ request'.tool = "set_default_value"
                         /\ casefold(request'.default_name) = "project"]_vars
    /\ [](\A u \in Users :
            (NoProjectNamed /\ request.user = u
                /\ defaults_store[u]["project"] = "WebApp")
                => tool_outcome.query_project = "WebApp")

\* C17, witness: a releases query that named no project was resolved to the
\* project "WebApp", which is only ever saved by
\* set_default_value("Project", "WebApp"), while the other user had another
\* default.
C17_Witness ==
    /\ NoProjectNamed
    /\ request.user = "U"
    /\ tool_outcome.query_project = "WebApp"
    /\ defaults_store["V"]["project"] = "Billing"

\* C18: get_default_value under a name returns the value saved under the
\* case-folded name, set_default_value under a valid name saves under the
\* case-folded name, and no row has an entry under a key that is not
\* case-folded: names that are equal after casefold share one entry.
C18_DefaultNamesCaseFolded ==
    /\ request.tool = "get_default_value" =>
            tool_outcome.text
                = <<"The default value for \"", casefold(request.default_name), "\" is \"",
                    DefaultOf(casefold(request.default_name)), "\"">>
    /\ (request.tool = "set_default_value" /\ ValidDefaultName(request.default_name)) =>
            DefaultOf(casefold(request.default_name)) = request.default_value
    /\ \A u \in Users, k \in StoreKeys :
            defaults_store[u][k] # None => k = casefold(k)

\* C18, witness: get_default_value("project") returned "Billing", which is
\* only ever saved under the name "PROJECT".
C18_Witness ==
    /\ request.tool = "get_default_value"
    /\ request.default_name = "project"
    /\ tool_outcome.text[4] = "Billing"

(***************************************************************************)
(* Properties of entity resolution, in get_dashboard_tool.                  *)
(***************************************************************************)
\* The resolution of the space is over.
SpaceSanitized == gpc \in {"default_argument", "fallback", "dashboard", "done"}

\* The indices of the spaces whose name equals the name given, but for case.
EqualButForCase ==
    {i \in 1..Len(spaces) :
        ~ Empty(space_name_argument)
        /\ casefold(spaces[i]) = casefold(space_name_argument)}

\* C19: when the spaces hold an entry whose name equals the name given but for
\* case, the resolver returns that entry, whatever the similarity of the
\* entries and wherever they stand in the list, and that entry is the space
\* the tool goes on with.
C19_ExactButForCaseWins ==
    (SpaceSanitized /\ EqualButForCase # {}) =>
        /\ tool_sanitized_space.some
        /\ \E i \in EqualButForCase : tool_sanitized_space.matched = spaces[i]
        /\ gpc \in {"fallback", "dashboard", "done"}
                => \E i \in EqualButForCase : tool_space_name = spaces[i]

\* C19, witness: "default" was given, "Default" stood last in the list with a
\* similarity of 0 while the first entry had the greatest similarity, and
\* "Default" was returned.
C19_Witness ==
    /\ gpc = "done"
    /\ space_name_argument = "default"
    /\ Len(spaces) = 3
    /\ spaces[3] = "Default"
    /\ scores["Default"] = 0
    /\ scores[spaces[1]] = MaxScore
    /\ tool_sanitized_space.matched = "Default"
    /\ tool_space_name = "Default"

PassesFilters(d) ==
    /\ InRequestedSets(d)
    /\ (TwoDates => InDateRange(d, dates.val[1], dates.val[2]))

\* C22: the list returned is the first min(max_results, N) of the N
\* deployments that pass the filters, in release order and then in deployment
\* order. Every deployment that passes the filters is appended to the end of
\* the list when the scan reaches it and nothing else changes the list; the
\* list returned is the start of that list, max_results long or all of it;
\* and it is shorter than max_results only if the scan went through every
\* deployment of every release.
C22_FirstPassingInScanOrder ==
    /\ [][IF di' = di + 1 /\ PassesFilters(deployment') /\ pc' # "raised"
          THEN deployments' =
                    Append(deployments,
                           DeploymentRecord(Release(ri), deployment', environments,
                                            tenants))
          ELSE deployments' = deployments]_vars
    /\ [](pc = "done" =>
            /\ result.Deployments
                    = SubSeq(deployments, 1, Min(max_results, Len(deployments)))
            /\ (Len(result.Deployments) < max_results
                    => (ri = n_releases /\ di = n_items)))

\* C22, witness: two deployments were returned, the first of the first
\* release and the second of the second release, where a deployment that did
\* not pass the filters came before it.
C22_Witness ==
    /\ pc = "done"
    /\ max_results = 2
    /\ Len(result.Deployments) = 2
    /\ result.Deployments[1].ReleaseId = Release(1).Id
    /\ result.Deployments[2].ReleaseId = Release(2).Id
    /\ di = 2

\* The records of the list built whose deployment has a task.
WithTask == {i \in 1..Len(deployments) : deployments[i].TaskId \notin {None, "", Absent}}

\* C24: a retained deployment whose TaskId is absent or empty causes no
\* get_task call and is recorded with TaskState and TaskDuration None, one
\* with a TaskId is recorded with the State and Duration of that task, and the
\* call does not raise: get_task was called once for each record with a task,
\* and the deployment just retained was recorded so without a KeyError.
C24_TaskEnrichedWhenPresent ==
    /\ lookups.get_task = Cardinality(WithTask)
    /\ (Examined /\ retained) =>
            /\ pc # "raised"
            /\ LET recorded == deployments[Len(deployments)]
               IN  IF deployment.TaskId \in {None, "", Absent}
                   THEN /\ recorded.TaskState = None
                        /\ recorded.TaskDuration = None
                   ELSE /\ recorded.TaskState = get_task(deployment.TaskId).State
                        /\ recorded.TaskDuration = get_task(deployment.TaskId).Duration

\* C25: when dates is not a list of exactly two dates (it is None, empty, one
\* date, or more than two), no deployment is excluded for its creation time:
\* a deployment is retained if and only if it passes the environment and
\* tenant filters.
C25_DateFilterOnlyForTwoDates ==
    (Examined /\ ~ TwoDates) => (retained <=> InRequestedSets(deployment))

\* C25, witness: one date was given, and a deployment created on another day
\* was retained.
C25_Witness ==
    /\ dates = List(<<"2024-01-10">>)
    /\ Examined
    /\ deployment.Created = "2024-01-01"
    /\ retained

\* C26: with max_results >= 1, a call that returns has made its enrichment
\* lookups for exactly the deployments it returns: the list returned is the
\* list built, get_channel_cached was called once for each deployment
\* returned and get_task once for each deployment returned that has a task.
C26_EnrichedAreReturned ==
    (pc = "done" /\ max_results >= 1) =>
        /\ result.Deployments = deployments
        /\ lookups.get_channel_cached = Len(result.Deployments)
        /\ lookups.get_task = Cardinality(WithTask)

\* C26, witness: the call returned max_results >= 1 deployments, one of them
\* with a task, and left a deployment of the last release unexamined.
C26_Witness ==
    /\ pc = "done"
    /\ max_results >= 1
    /\ lookups.get_channel_cached = max_results
    /\ lookups.get_task >= 1
    /\ di < n_items

(***************************************************************************)
(* Further properties of the resolution of the space.                       *)
(***************************************************************************)
\* C23: when the query yields no resolved space and the user has no
\* persisted "Space" default, the name the space is looked up by on the
\* platform is the literal "Default".
C23_UnsetSpaceIsDefault ==
    (/\ gpc \in {"dashboard", "done"}
     /\ ~ tool_sanitized_space.some
     /\ defaults_store[github_user]["space"] = None)
        => tool_space_name = "Default"

\* C23, witness: the query named no space, another user has a default space
\* and this user has none, and the space was looked up as "Default".
C23_Witness ==
    /\ gpc = "done"
    /\ space_name_argument = None
    /\ github_user = "V"
    /\ defaults_store["U"]["space"] = "Staging"
    /\ platform_calls = 1
    /\ tool_space_name = "Default"

(***************************************************************************)
(* Further properties of the per-user defaults.                             *)
(***************************************************************************)
\* C27: set_default_value called with a name that is none of environment,
\* project, space, channel and tenant (in any case) answers with the text of
\* the validation error and leaves the defaults of every user as they were.
C27_InvalidDefaultNameSavesNothing ==
    [][(/\ request'.tool = "set_default_value"
        /\ casefold(request'.default_name)
                \notin {"environment", "project", "space", "channel", "tenant"})
            => (/\ defaults_store' = defaults_store
                /\ tool_outcome'.text = InvalidDefaultNameText)]_vars

\* C27, witness: a user who has a default project asked to save a default
\* "Colour", was answered with the validation error, and has no such default.
C27_Witness ==
    /\ request.tool = "set_default_value"
    /\ request.default_name = "Colour"
    /\ tool_outcome.text = InvalidDefaultNameText
    /\ defaults_store[request.user]["project"] = "WebApp"
    /\ defaults_store[request.user]["colour"] = None
    /\ defaults_store[request.user]["Colour"] = None

(***************************************************************************)
(* Further properties of copilot_handler_internal.                          *)
(***************************************************************************)
\* C28: when the query extracted is empty or only white space, the answer is
\* the sample question as an event stream, and neither the language model
\* nor a tool handler is called: llm_tool_query and the handlers run only for
\* a query that is not.
C28_BlankQueryGetsSampleQuestion ==
    /\ (hpc = "done" /\ strip(query) = "") =>
            /\ response = SseResponse(SampleQuestionText)
            /\ selection = NoSelection
            /\ function_call = NoCall
            /\ calls = <<>>
            /\ searches = <<>>
            /\ raised = NoException
            /\ ~ escaped
    /\ (hpc \notin {"extract", "query", "done"}) => strip(query) # ""

\* C28, witness: the message parameter was white space, and the request was
\* answered with the sample question.
C28_Witness ==
    /\ hpc = "done"
    /\ req.message = "  "
    /\ query = ""
    /\ response = SseResponse(SampleQuestionText)
    /\ calls = <<>>

\* The query has been extracted.
QueryExtracted == hpc \notin {"idle", "extract"}

\* C29: extract_query returns the trimmed message parameter when it is not
\* empty; otherwise the trimmed content of the last message of the body's
\* messages, whatever the earlier ones are; and the empty string, raising
\* nothing, when the body is empty, is malformed, has no messages or an empty
\* list of them, or its last message has no content.
C29_QueryFromMessageOrLastContent ==
    QueryExtracted =>
        /\ IF req.message \notin {None, ""}
           THEN query = strip(req.message)
           ELSE IF /\ req.body.kind = "object"
                   /\ req.body.has_messages
                   /\ Len(req.body.messages) # 0
                   /\ req.body.messages[Len(req.body.messages)].content
                            \notin {None, Absent}
                THEN query = strip(req.body.messages[Len(req.body.messages)].content)
                ELSE query = ""
        /\ (hpc = "query" => (raised = NoException /\ ~ escaped))

\* C29, witness: there was no message parameter, the chat had an earlier
\* message, and the query is the trimmed content of the last one.
C29_Witness ==
    /\ hpc = "query"
    /\ req.message = None
    /\ Len(req.body.messages) = 2
    /\ req.body.messages[1].content = " What came before "
    /\ req.body.messages[2].content = " Show me the dashboard "
    /\ query = "Show me the dashboard"

\* C30: in how_to_callback, when the search made with the user's token raises
\* GitHubRequestFailed, the search is made once more, without a token, and
\* the callback goes on with its result; a GitHubRequestFailed of the second
\* search is not retried and reaches the except clauses, which log it and
\* answer that the request to GitHub failed. No third search is made, and the
\* second is made only for a GitHubRequestFailed of the first.
C30_SearchRetriedOnceWithoutToken ==
    /\ Len(searches) <= 2
    /\ (Len(searches) >= 1 => searches[1].auth = "token")
    /\ (Len(searches) = 2 =>
            /\ searches[1].raised.type = "GitHubRequestFailed"
            /\ searches[2].auth = "anonymous")
    /\ (/\ Len(searches) >= 1
        /\ searches[1].raised.type = "GitHubRequestFailed"
        /\ hpc # "search_retry") => Len(searches) = 2
    /\ (Len(searches) = 2 /\ searches[2].raised = NoException) =>
            /\ hpc \in {"body", "respond", "boundary", "done"}
            /\ raised # searches[1].raised
            /\ (hpc = "done" /\ raised = NoException)
                    => response = SseResponse(AnswerText)
    /\ (Len(searches) = 2 /\ searches[2].raised.type = "GitHubRequestFailed") =>
            /\ hpc \in {"boundary", "done"}
            /\ raised = searches[2].raised
            /\ hpc = "done" =>
                    /\ response = SseResponse(GitHubRequestFailedText)
                    /\ handle_error_calls = 1

\* C30, witness: the search with the token failed, the search without one
\* returned, and the request was answered.
C30_Witness ==
    /\ hpc = "done"
    /\ Len(searches) = 2
    /\ searches[1].raised.type = "GitHubRequestFailed"
    /\ searches[2].raised = NoException
    /\ response = SseResponse(AnswerText)

====
